---- MODULE Spec2Model ----
(***************************************************************************)
(* DeepWiki MCP server (src/server.py): the in-memory task store, the      *)
(* tool handlers deepwiki_query and deepwiki_check_task, the sweep         *)
(* cleanup_old_tasks, the background unit execute_query_background and     *)
(* the client calls it makes (_request under its retry decorator,          *)
(* submit_query under the semaphore, poll_until_done); and the functions   *)
(* of the module that work on a finished result: MermaidGenerator,         *)
(* extract_codemap, _extract_answer_from_response and the result payload.  *)
(*                                                                         *)
(* Scheduling is asyncio's: a coroutine runs without interruption between  *)
(* two awaits that suspend, so every action below is the code between two  *)
(* suspension points.  The tool handlers contain no await and are one      *)
(* action each.                                                            *)
(***************************************************************************)
EXTENDS Integers, Sequences, FiniteSets, Bags, TLC

(* ---------------------------------------------------------------------- *)
(* Bounds of the model                                                     *)
(* ---------------------------------------------------------------------- *)

\* Number of deepwiki_query calls that pass validation in one run.
MaxUnits == 2

\* Number of clock ticks in one run.
MaxTicks == 2

\* Longest list of traces of a codemap and of locations of a trace given to
\* MermaidGenerator.generate.
MaxTraces == 2
MaxLocations == 2

\* Longest response list of a sub-query given to the extractors.
MaxChunks == 3

(* ---------------------------------------------------------------------- *)
(* Program constants and settings                                          *)
(* ---------------------------------------------------------------------- *)

\* settings.poll_max_attempts (default 120), here configured to 2.
poll_max_attempts == 2

\* settings.max_concurrent_queries (default 5), here configured to 1.
max_concurrent_queries == 1

\* Capacity ceiling of the store.  The code sets 100; the model keeps the
\* code's comparisons and arithmetic on it and scales the number to 1, so
\* that MAX_TASKS + 1 calls of deepwiki_query overflow the store.
MAX_TASKS == 1

TASK_EXPIRY_HOURS == 24

\* stop_after_attempt(3) of the retry decorator of _request.
STOP_AFTER_ATTEMPT == 3

\* Seconds the clock advances per tick: the retention window, so that a record
\* is seen younger than, exactly at and beyond the window.
TickSec == 24 * 3600

\* The values f"deepwiki_{uuid.uuid4().hex[:8]}" can take (16^8 in the code):
\* one more than the store can hold.
TaskIds == 1 .. (MAX_TASKS + 1)

\* Python's None / a present value, for the Optional fields of a record.
None == << >>
Some(v) == << v >>

VARIABLES
    tasks,      \* the dict `tasks`: task id -> record
    order,      \* insertion order of the keys of `tasks` (dicts are ordered)
    now,        \* time.time()
    ticks,      \* clock ticks so far
    created,    \* calls of deepwiki_query that have passed validation
    units,      \* the background units that have not ended and are not blocked
                \* in acquire(): a bag of coroutine states
    permits,    \* DeepWikiClient._semaphore: free permits
    waiters,    \* DeepWikiClient._semaphore: units blocked in acquire, FIFO
    clients,    \* the number of DeepWikiClient instances constructed so far;
                \* the last one is the global _client (line 481 constructs
                \* and assigns in one statement), whose semaphore permits
                \* and waiters are
    call        \* a call made directly, outside a background unit, of a
                \* method of DeepWikiClient (src/examples.py) or of one of
                \* the functions of the module

vars == << tasks, order, now, ticks, created, units, permits, waiters, call, clients >>

(* ---------------------------------------------------------------------- *)
(* Task store: cleanup_old_tasks                                           *)
(* ---------------------------------------------------------------------- *)

Restrict(T, S) == [tid \in S |-> T[tid]]

Without(ord, S) == SelectSeq(ord, LAMBDA tid : tid \notin S)

\* expiry_threshold = current_time - (TASK_EXPIRY_HOURS * 3600)
expiry_threshold(current_time) == current_time - (TASK_EXPIRY_HOURS * 3600)

\* The comparison of `expired` turned round.
expired_younger(T, current_time) ==
    {tid \in DOMAIN T : T[tid].created_at > expiry_threshold(current_time)}

\* expired = [tid for tid, task in tasks.items()
\*            if task["created_at"] < expiry_threshold]
expired(T, current_time) ==
    {tid \in DOMAIN T : T[tid].created_at < expiry_threshold(current_time)}

Pos(ord, tid) == CHOOSE i \in 1 .. Len(ord) : ord[i] = tid

\* sorted(tasks.items(), key=lambda x: x[1]["created_at"]): a stable sort, so
\* records created at the same time keep their dict order.
SortsBefore(T, ord, a, b) ==
    \/ T[a].created_at < T[b].created_at
    \/ T[a].created_at = T[b].created_at /\ Pos(ord, a) < Pos(ord, b)

\* The sort of sorted_tasks with reverse=True.
sorted_tasks_reversed(T, ord) ==
    [k \in 1 .. Len(ord) |->
        CHOOSE a \in DOMAIN T :
            Cardinality({b \in DOMAIN T : SortsBefore(T, ord, a, b)}) = k - 1]

sorted_tasks(T, ord) ==
    [k \in 1 .. Len(ord) |->
        CHOOSE a \in DOMAIN T :
            Cardinality({b \in DOMAIN T : SortsBefore(T, ord, b, a)}) = k - 1]

\* if len(tasks) > MAX_TASKS: ... to_remove = len(tasks) - MAX_TASKS
\*     for tid, _ in sorted_tasks[:to_remove]: del tasks[tid]
capacity_removed(T, ord) ==
    IF Cardinality(DOMAIN T) > MAX_TASKS
    THEN LET to_remove == Cardinality(DOMAIN T) - MAX_TASKS
         IN  {sorted_tasks(T, ord)[k] : k \in 1 .. to_remove}
    ELSE {}

\* The store after cleanup_old_tasks() has run at time current_time.
cleanup_old_tasks(T, ord, current_time) ==
    LET e  == expired(T, current_time)
        T1 == Restrict(T, DOMAIN T \ e)
        o1 == Without(ord, e)
        c  == capacity_removed(T1, o1)
    IN  [tasks |-> Restrict(T1, DOMAIN T1 \ c), order |-> Without(o1, c)]

(* ---------------------------------------------------------------------- *)
(* Tool handlers                                                           *)
(* ---------------------------------------------------------------------- *)

\* A repository identifier is a string: a sequence of characters.
GoodRepo == << "o", "/", "r" >>
BadRepo == << "o", "r" >>

\* The repository lists the callers pass (Field: min_length=1, max_length=5).
ReposInputs ==
    { << GoodRepo >>, << BadRepo >>, << GoodRepo, BadRepo >>,
      << GoodRepo, GoodRepo >> }

\* '/' in repo
HasSlash(repo) == \E i \in 1 .. Len(repo) : repo[i] = "/"

\* The validation looking at the first identifier of the list only.
ValidRepos_first_only(repos) == HasSlash(repos[1])

\* for repo in repos: if '/' not in repo: return "Error: Invalid repository..."
ValidRepos(repos) == \A i \in 1 .. Len(repos) : HasSlash(repos[i])

\* No attempt of the request a unit has in flight has failed yet.
NoResp == [exc |-> "none", code |-> 0]

\* The record deepwiki_query inserts.
NewTask(t) ==
    [status |-> "pending", created_at |-> t, completed_at |-> None,
     result |-> None, error |-> None]

\* The unit handed over with its POST already sent, as a handler that
\* awaited submit_query itself would leave it.
NewUnit_submitted(task_id) ==
    [tid |-> task_id, pc |-> "submit", polls |-> 0, attempts |-> 1, last |-> NoResp]

\* A background unit: the coroutine asyncio.create_task schedules.  pc is the
\* await it is suspended at, polls the status calls poll_until_done has made,
\* attempts the HTTP requests the current call of _request has made, last
\* what the attempt before the current one produced.
NewUnit(task_id) ==
    [tid |-> task_id, pc |-> "created", polls |-> 0, attempts |-> 0, last |-> NoResp]

\* tasks[task_id] = {...}: an existing key keeps its place in the dict order,
\* a new key goes last.
Insert(T, ord, task_id, rec) ==
    [tasks |-> [tid \in DOMAIN T \cup {task_id} |->
                    IF tid = task_id THEN rec ELSE T[tid]],
     order |-> IF task_id \in DOMAIN T THEN ord ELSE Append(ord, task_id)]

\* One call of deepwiki_query on the store T at time t, task_id being the
\* value of f"deepwiki_{uuid.uuid4().hex[:8]}" (a random draw, not checked
\* against the keys of the store): the store it leaves, the units it hands
\* to asyncio.create_task, and the text it returns.  The handler awaits
\* nothing and sends no request itself.
deepwiki_query_call(T, ord, t, repos, task_id) ==
    IF ~ValidRepos(repos)
    THEN [tasks |-> T, order |-> ord, scheduled |-> {},
          out |-> "Error: Invalid repository format"]
    ELSE LET swept == cleanup_old_tasks(T, ord, t)
             ins   == Insert(swept.tasks, swept.order, task_id, NewTask(t))
         IN  [tasks |-> ins.tasks, order |-> ins.order,
              scheduled |-> {NewUnit(task_id)}, out |-> "Task started"]

\* deepwiki_query, a call whose repository list fails validation.
deepwiki_query_invalid(repos) ==
    /\ ~ValidRepos(repos)
    /\ LET r == deepwiki_query_call(tasks, order, now, repos, CHOOSE task_id \in TaskIds : TRUE)
       IN  /\ tasks' = r.tasks
           /\ order' = r.order
           /\ units' = units (+) SetToBag(r.scheduled)
    /\ UNCHANGED << now, ticks, created, permits, waiters, call, clients >>

\* deepwiki_query, a call that passes validation.
deepwiki_query(repos, task_id) ==
    /\ ValidRepos(repos)
    /\ created < MaxUnits
    /\ created' = created + 1
    /\ LET r == deepwiki_query_call(tasks, order, now, repos, task_id)
       IN  /\ tasks' = r.tasks
           /\ order' = r.order
           /\ units' = units (+) SetToBag(r.scheduled)
    /\ UNCHANGED << now, ticks, permits, waiters, call, clients >>

\* What deepwiki_check_task reports for task_id on the store T.
CheckReport(T, task_id) ==
    IF task_id \notin DOMAIN T
    THEN [out |-> "not_found", err |-> None]
    ELSE IF T[task_id].status = "failed"
         THEN [out |-> "failed", err |-> T[task_id].error]
         ELSE [out |-> T[task_id].status, err |-> None]

deepwiki_check_task(task_id) ==
    /\ LET swept == cleanup_old_tasks(tasks, order, now)
       IN  /\ tasks' = swept.tasks
           /\ order' = swept.order
    /\ UNCHANGED << now, ticks, created, units, permits, waiters, call, clients >>

\* time.time() advances.
Tick ==
    /\ ticks < MaxTicks
    /\ ticks' = ticks + 1
    /\ now' = now + TickSec
    /\ UNCHANGED << tasks, order, created, units, permits, waiters, call, clients >>

(* ---------------------------------------------------------------------- *)
(* DeepWikiClient._request and its retry decorator                         *)
(* ---------------------------------------------------------------------- *)

\* What one `await self._client.request(...)` can produce: a transport
\* exception, or a response with a status code and a body (text).  Of the
\* JSON body of a 2xx answer to the status call the model keeps what
\* poll_until_done reads: the state of the last entry of `queries` ("empty":
\* the list has no entry) and that entry's `error`, if it has one.
Response(exc, code, text, state, error) ==
    [exc |-> exc, code |-> code, text |-> text, state |-> state, error |-> error]

TransportFailures ==
    { Response(e, 0, "", "none", None) : e \in {"TimeoutException", "NetworkError"} }

\* The responses with a status that is not 2xx.
ClientStatusFailures ==
    { Response("none", 302, "moved", "none", None),
      Response("none", 400, "bad request", "none", None),
      Response("none", 403, "forbidden", "none", None),
      Response("none", 404, "no such query", "none", None),
      Response("none", 429, "slow down", "none", None),
      Response("none", 500, "internal error", "none", None),
      Response("none", 503, "unavailable", "none", None) }

Ok(state, error) == Response("none", 200, "{...}", state, error)

\* The 2xx answers to the status call: the last entry is in a state that is
\* neither done nor failed ("none": it has no `state`), or it is done, or
\* it is failed, with or without an `error`.
ClientStatusOk ==
    { Ok(st, None) : st \in {"running", "queued", "none", "empty", "done", "failed"} }
        \cup { Ok("failed", Some("repository not indexed")) }

\* What a request of a call made on the client directly can produce.
ClientResponses(fn) ==
    (IF fn = "submit_query" THEN {Ok("none", None)} ELSE ClientStatusOk)
        \cup ClientStatusFailures \cup TransportFailures

\* The requests of the background units draw from a part of these: one
\* status of the 4xx class and one of the 5xx class.
StatusFailures == { resp \in ClientStatusFailures : resp.code \in {429, 500} }

SubmitResponses == {Ok("none", None)} \cup StatusFailures \cup TransportFailures

StatusResponses ==
    { Ok(st, None) : st \in {"running", "done", "failed", "empty"} }
        \cup StatusFailures \cup TransportFailures

\* response.raise_for_status() raises HTTPStatusError
raise_for_status(resp) == resp.code < 200 \/ resp.code > 299

\* str() of a status code, for the codes that are formatted into a message.
str(code) == CASE code = 500 -> "500" [] code = 503 -> "503"

\* The handler with the body of the response left out of the last message.
status_error_without_body(code, text) ==
    IF code = 429 THEN << "Rate limit exceeded. Please try again later." >>
    ELSE IF code >= 500
    THEN << "Server error (", str(code), "). Service may be unavailable." >>
    ELSE IF code = 404
    THEN << "Resource not found. Check query ID or repository name." >>
    ELSE << "Request failed: " >>

\* except httpx.HTTPStatusError as e: the message of the ValueError raised.
\* A message is the sequence of the pieces its f-string is put together from.
status_error(code, text) ==
    IF code = 429 THEN << "Rate limit exceeded. Please try again later." >>
    ELSE IF code >= 500
    THEN << "Server error (", str(code), "). Service may be unavailable." >>
    ELSE IF code = 404
    THEN << "Resource not found. Check query ID or repository name." >>
    ELSE << "Request failed: ", text >>

\* The try statement of _request: every exception of the three classes is
\* caught and a ValueError is raised in its place.
request_body(resp) ==
    IF resp.exc = "TimeoutException"
    THEN [raised |-> TRUE, type |-> "ValueError",
          msg |-> << "Request timed out. Try 'fast' mode or simpler query." >>]
    ELSE IF resp.exc = "NetworkError"
    THEN [raised |-> TRUE, type |-> "ValueError", msg |-> << "Network error" >>]
    ELSE IF raise_for_status(resp)
    THEN [raised |-> TRUE, type |-> "ValueError", msg |-> status_error(resp.code, resp.text)]
    ELSE [raised |-> FALSE, type |-> "none", msg |-> << >>]

\* The predicate also naming the exception the function raises in their place.
retry_if_exception_type_or_ValueError(type) ==
    type \in {"TimeoutException", "NetworkError", "ValueError"}

\* retry=retry_if_exception_type((httpx.TimeoutException, httpx.NetworkError)):
\* decided on the type of the exception that leaves the decorated function.
retry_if_exception_type(type) == type \in {"TimeoutException", "NetworkError"}

\* stop=stop_after_attempt(3)
stop_after_attempt(attempts) == attempts >= STOP_AFTER_ATTEMPT

\* The decorator's decision after one attempt of the decorated function:
\* return its value, raise its exception, sleep and call it again, or (the
\* retried exception persisting at the stop) raise tenacity's RetryError.
retry(resp, attempts) ==
    LET b == request_body(resp)
    IN  IF ~b.raised THEN [act |-> "return", msg |-> << >>]
        ELSE IF ~retry_if_exception_type(b.type) THEN [act |-> "raise", msg |-> b.msg]
        ELSE IF stop_after_attempt(attempts) THEN [act |-> "raise", msg |-> << "RetryError" >>]
        ELSE [act |-> "retry", msg |-> b.msg]

(* ---------------------------------------------------------------------- *)
(* execute_query_background                                                *)
(* ---------------------------------------------------------------------- *)

\* The unit `old` of the bag resumes and suspends again as `new`.
Becomes(old, new) == units' = (units (-) SetToBag({old})) (+) SetToBag({new})

\* The decorator retries: after its sleep the same request is sent again, as
\* the next attempt, `last` keeping what the failed attempt produced.
Resent(un, resp) ==
    [un EXCEPT !.attempts = un.attempts + 1,
               !.last = [exc |-> resp.exc, code |-> resp.code]]

\* The unit `old` leaves the bag: its coroutine returned or raised (a
\* coroutine that has ended keeps no state), or it blocks in acquire().
Ends(old) == units' = units (-) SetToBag({old})

\* tasks[task_id]["status"] = "failed"; ["error"] = str(e); ["completed_at"] = now
MarkFailed(T, task_id, msg, t) ==
    [T EXCEPT ![task_id].status = "failed",
              ![task_id].error = Some(msg),
              ![task_id].completed_at = Some(t)]

\* tasks[task_id]["status"] = "completed"; ["result"] = formatted; ...
MarkCompleted(T, task_id, t) ==
    [T EXCEPT ![task_id].status = "completed",
              ![task_id].result = Some("formatted"),
              ![task_id].completed_at = Some(t)]

\* `except Exception as e:` of execute_query_background.  tasks[task_id]
\* raises KeyError when the key is gone, and that exception leaves the
\* coroutine; either way the unit ends.
Except(task_id, msg) ==
    IF task_id \in DOMAIN tasks
    THEN tasks' = MarkFailed(tasks, task_id, msg, now)
    ELSE tasks' = tasks

\* Lines 523-545: the result is formatted and written; the first write raises
\* KeyError when the key is gone, which the except clause then handles.
Complete(task_id) ==
    IF task_id \in DOMAIN tasks
    THEN tasks' = MarkCompleted(tasks, task_id, now)
    ELSE Except(task_id, << "KeyError" >>)

\* raise ValueError(f"Query timed out after {timeout_sec}s. Try 'fast' mode."):
\* timeout_sec is fixed by the settings.
PollTimeout == << "Query timed out after timeout_sec s. Try 'fast' mode." >>

\* The message made of the default whatever the entry carries.
query_failed_default_only(resp) == << "Query failed: ", "Query failed" >>

\* error_msg = last_query.get("error", "Query failed")
\* raise ValueError(f"Query failed: {error_msg}")
query_failed(resp) ==
    << "Query failed: ", IF resp.error = None THEN "Query failed" ELSE resp.error[1] >>

\* The loop of poll_until_done making one status call fewer.
poll_until_done_one_short(resp, polls) ==
    IF resp.state = "done" THEN [act |-> "return", msg |-> << >>]
    ELSE IF resp.state = "failed" THEN [act |-> "raise", msg |-> query_failed(resp)]
    ELSE IF polls < poll_max_attempts - 1 THEN [act |-> "sleep", msg |-> << >>]
    ELSE [act |-> "raise", msg |-> PollTimeout]

\* The loop of poll_until_done giving up at the ceiling before it looks at the
\* state of the last response.
poll_until_done_ceiling_first(resp, polls) ==
    IF polls >= poll_max_attempts THEN [act |-> "raise", msg |-> PollTimeout]
    ELSE IF resp.state = "done" THEN [act |-> "return", msg |-> << >>]
    ELSE IF resp.state = "failed" THEN [act |-> "raise", msg |-> query_failed(resp)]
    ELSE [act |-> "sleep", msg |-> << >>]

\* poll_until_done after get_query_status has returned resp, the status call
\* number `polls`: return the payload, raise, or go round the loop again; the
\* loop ended, raise the timeout.
poll_until_done(resp, polls) ==
    IF resp.state = "done" THEN [act |-> "return", msg |-> << >>]
    ELSE IF resp.state = "failed" THEN [act |-> "raise", msg |-> query_failed(resp)]
    ELSE IF polls < poll_max_attempts THEN [act |-> "sleep", msg |-> << >>]
    ELSE [act |-> "raise", msg |-> PollTimeout]

\* get_client() constructing a DeepWikiClient on every call (without the
\* test `if _client is None`).
get_client_always_new(n) == n + 1

\* get_client(): the first call constructs the DeepWikiClient and assigns it
\* to the global; `await _client.start()` has no await in it and does not
\* suspend.  n is the number of instances constructed so far.
get_client(n) == IF n = 0 THEN 1 ELSE n

\* The unit's first run: mark running, get_client(), build the request and
\* enter submit_query, whose `async with self._semaphore` either takes a
\* permit and sends the POST or suspends in acquire().
UnitStart(un) ==
    /\ BagIn(un, units)
    /\ un.pc = "created"
    /\ UNCHANGED << order, now, ticks, created, call >>
    /\ IF un.tid \notin DOMAIN tasks
       THEN /\ Except(un.tid, << "KeyError" >>)
            /\ Ends(un)
            /\ UNCHANGED << permits, waiters, clients >>
       ELSE /\ tasks' = [tasks EXCEPT ![un.tid].status = "running"]
            /\ clients' = get_client(clients)
            /\ IF permits > 0 /\ waiters = << >>
               THEN /\ permits' = permits - 1
                    /\ waiters' = waiters
                    /\ Becomes(un, [un EXCEPT !.pc = "submit", !.attempts = 1])
               ELSE /\ permits' = permits
                    /\ waiters' = Append(waiters, [un EXCEPT !.pc = "acquire"])
                    /\ Ends(un)

\* acquire() returning to a waiting unit whether or not a permit is free.
Acquire_without_permit ==
    /\ waiters # << >>
    /\ permits' = permits - 1
    /\ waiters' = Tail(waiters)
    /\ units' = units (+) SetToBag({[Head(waiters) EXCEPT !.pc = "submit", !.attempts = 1]})
    /\ UNCHANGED << tasks, order, now, ticks, created, call, clients >>

\* Semaphore.acquire() returns to the longest-waiting unit; the POST is sent.
Acquire ==
    /\ waiters # << >>
    /\ permits > 0
    /\ permits' = permits - 1
    /\ waiters' = Tail(waiters)
    /\ units' = units (+) SetToBag({[Head(waiters) EXCEPT !.pc = "submit", !.attempts = 1]})
    /\ UNCHANGED << tasks, order, now, ticks, created, call, clients >>

\* submit_query swallowing the error of its POST: the unit goes on to poll.
SubmitResponse_error_swallowed(un, resp) ==
    /\ BagIn(un, units)
    /\ un.pc = "submit"
    /\ resp \in SubmitResponses
    /\ permits' = permits + 1
    /\ Becomes(un, [un EXCEPT !.pc = "sleep"])
    /\ UNCHANGED << tasks, order, now, ticks, created, waiters, call, clients >>

\* submit_query keeping its permit when the POST raises (acquire and release
\* written out, the release not in a finally clause).
SubmitResponse_permit_kept_on_error(un, resp) ==
    /\ BagIn(un, units)
    /\ un.pc = "submit"
    /\ resp \in SubmitResponses
    /\ LET d == retry(resp, un.attempts)
       IN  CASE d.act = "retry" ->
                  /\ Becomes(un, Resent(un, resp))
                  /\ UNCHANGED << tasks, permits, clients >>
             [] d.act = "return" ->
                  /\ permits' = permits + 1
                  /\ IF poll_max_attempts > 0
                     THEN /\ Becomes(un, [un EXCEPT !.pc = "sleep"])
                          /\ tasks' = tasks
                     ELSE /\ Except(un.tid, PollTimeout)
                          /\ Ends(un)
             [] d.act = "raise" ->
                  /\ permits' = permits
                  /\ Except(un.tid, d.msg)
                  /\ Ends(un)
    /\ UNCHANGED << order, now, ticks, created, waiters, call, clients >>

\* The POST of submit_query comes back.  Leaving `async with` releases the
\* permit, on return and on exception alike; on return poll_until_done
\* starts with its first sleep.
SubmitResponse(un, resp) ==
    /\ BagIn(un, units)
    /\ un.pc = "submit"
    /\ resp \in SubmitResponses
    /\ LET d == retry(resp, un.attempts)
       IN  CASE d.act = "retry" ->
                  /\ Becomes(un, Resent(un, resp))
                  /\ UNCHANGED << tasks, permits, clients >>
             [] d.act = "return" ->
                  /\ permits' = permits + 1
                  /\ IF poll_max_attempts > 0
                     THEN /\ Becomes(un, [un EXCEPT !.pc = "sleep"])
                          /\ tasks' = tasks
                     ELSE /\ Except(un.tid, PollTimeout)
                          /\ Ends(un)
             [] d.act = "raise" ->
                  /\ permits' = permits + 1
                  /\ Except(un.tid, d.msg)
                  /\ Ends(un)
    /\ UNCHANGED << order, now, ticks, created, waiters, call, clients >>

\* asyncio.sleep(poll_interval) of poll_until_done ends: get_query_status
\* sends the GET.
PollWake(un) ==
    /\ BagIn(un, units)
    /\ un.pc = "sleep"
    /\ Becomes(un, [un EXCEPT !.pc = "status", !.attempts = 1, !.polls = un.polls + 1])
    /\ UNCHANGED << tasks, order, now, ticks, created, permits, waiters, call, clients >>

\* The GET of get_query_status comes back, inside the loop of poll_until_done.
StatusResponse(un, resp) ==
    /\ BagIn(un, units)
    /\ un.pc = "status"
    /\ resp \in StatusResponses
    /\ LET d == retry(resp, un.attempts)
           p == poll_until_done(resp, un.polls)
       IN  CASE d.act = "retry" ->
                  /\ Becomes(un, Resent(un, resp))
                  /\ tasks' = tasks
             [] d.act = "raise" -> Except(un.tid, d.msg) /\ Ends(un)
             [] d.act = "return" /\ p.act = "return" -> Complete(un.tid) /\ Ends(un)
             [] d.act = "return" /\ p.act = "raise" -> Except(un.tid, p.msg) /\ Ends(un)
             [] d.act = "return" /\ p.act = "sleep" ->
                  /\ Becomes(un, [un EXCEPT !.pc = "sleep"])
                  /\ tasks' = tasks
    /\ UNCHANGED << order, now, ticks, created, permits, waiters, call, clients >>

(* ---------------------------------------------------------------------- *)
(* The client called directly: submit_query, get_query_status,             *)
(* poll_until_done                                                         *)
(* ---------------------------------------------------------------------- *)

ClientMethods == {"submit_query", "get_query_status", "poll_until_done"}

\* The call: fn the method, pc where its coroutine stands, polls the status
\* calls poll_until_done has made, attempts and last as for a unit, seen the
\* states the status calls of poll_until_done have reported so far, result
\* the value returned, error the message of the exception raised.
NoCall ==
    [fn |-> "none", pc |-> "idle", polls |-> 0, attempts |-> 0, last |-> NoResp,
     seen |-> << >>, result |-> None, error |-> None]

Returns(c, value) == [c EXCEPT !.pc = "returned", !.result = Some(value)]

Raises(c, msg) == [c EXCEPT !.pc = "raised", !.error = Some(msg)]

\* The method is called.  submit_query takes its permit (one caller: the
\* semaphore is free) and sends the POST, get_query_status sends the GET,
\* poll_until_done enters its loop and sleeps, or, the loop being empty,
\* raises the timeout.
ClientCall(fn) ==
    /\ call.pc = "idle"
    /\ fn \in ClientMethods
    /\ permits > 0
    /\ permits' = IF fn = "submit_query" THEN permits - 1 ELSE permits
    /\ call' = IF fn # "poll_until_done"
                THEN [call EXCEPT !.fn = fn, !.pc = "request", !.attempts = 1]
                ELSE IF poll_max_attempts > 0
                     THEN [call EXCEPT !.fn = fn, !.pc = "sleep"]
                     ELSE Raises([call EXCEPT !.fn = fn], PollTimeout)
    /\ UNCHANGED << tasks, order, now, ticks, created, units, waiters, clients >>

\* asyncio.sleep(poll_interval) of poll_until_done ends: the GET is sent.
ClientPollWake ==
    /\ call.pc = "sleep"
    /\ call' = [call EXCEPT !.pc = "request", !.attempts = 1, !.polls = call.polls + 1]
    /\ UNCHANGED << tasks, order, now, ticks, created, units, permits, waiters, clients >>

\* The request of the call comes back.
ClientResponse(resp) ==
    /\ call.pc = "request"
    /\ resp \in ClientResponses(call.fn)
    /\ LET d == retry(resp, call.attempts)
           p == poll_until_done(resp, call.polls)
           c == [call EXCEPT !.seen = Append(call.seen, resp.state)]
       IN  /\ call' =
                CASE d.act = "retry" -> Resent(call, resp)
                  [] d.act = "raise" -> Raises(call, d.msg)
                  [] d.act = "return" /\ call.fn # "poll_until_done" -> Returns(call, resp)
                  [] d.act = "return" /\ call.fn = "poll_until_done" ->
                       CASE p.act = "return" -> Returns(c, resp)
                         [] p.act = "raise" -> Raises(c, p.msg)
                         [] p.act = "sleep" -> [c EXCEPT !.pc = "sleep"]
           /\ permits' = IF call.fn = "submit_query" /\ d.act # "retry"
                         THEN permits + 1 ELSE permits
    /\ UNCHANGED << tasks, order, now, ticks, created, units, waiters, clients >>

(* ---------------------------------------------------------------------- *)
(* Strings                                                                 *)
(* ---------------------------------------------------------------------- *)

\* A string is the sequence of its characters; a fixed piece of an f-string
\* or a literal of the code is written as one element.

\* str.isalnum() of one character (of the characters the inputs are made of,
\* and of the letters of the prefixes "trace_" and "loc_").
isalnum(c) == c \in {"a", "c", "e", "l", "o", "r", "t", "1", "2"}

Digit(d) ==
    CASE d = 0 -> "0" [] d = 1 -> "1" [] d = 2 -> "2" [] d = 3 -> "3" [] d = 4 -> "4"
      [] d = 5 -> "5" [] d = 6 -> "6" [] d = 7 -> "7" [] d = 8 -> "8" [] d = 9 -> "9"

\* str(n) of an integer n >= 0, as an f-string formats it.
RECURSIVE str_int(_)
str_int(n) == IF n < 10 THEN << Digit(n) >> ELSE str_int(n \div 10) \o << Digit(n % 10) >>

\* "".join(parts)
RECURSIVE Concat(_)
Concat(parts) == IF parts = << >> THEN << >> ELSE Head(parts) \o Concat(Tail(parts))

\* sep.join(parts)
RECURSIVE Join(_, _)
Join(parts, sep) ==
    IF parts = << >> THEN << >>
    ELSE IF Len(parts) = 1 THEN parts[1]
    ELSE parts[1] \o << sep >> \o Join(Tail(parts), sep)

\* s.replace(old, new) for a single character old
Replace(s, old, new) ==
    Concat([i \in 1 .. Len(s) |-> IF s[i] = old THEN new ELSE << s[i] >>])

\* The position of the last occurrence of c in s, 0 if there is none.
LastIndex(s, c) ==
    IF \E i \in 1 .. Len(s) : s[i] = c
    THEN CHOOSE i \in 1 .. Len(s) : s[i] = c /\ \A j \in (i + 1) .. Len(s) : s[j] # c
    ELSE 0

(* ---------------------------------------------------------------------- *)
(* MermaidGenerator                                                        *)
(* ---------------------------------------------------------------------- *)

\* ''.join(c if c.isalnum() else '_' for c in s)
sanitize_id(s) == [i \in 1 .. Len(s) |-> IF isalnum(s[i]) THEN s[i] ELSE "_"]

\* s.replace('"', '#quot;').replace('\n', ' ')
escape_label(s) == Replace(Replace(s, "\"", << "#quot;" >>), "\n", << " " >>)

\* path.split('/')[-1] if '/' in path else path
short_path(path) == SubSeq(path, LastIndex(path, "/") + 1, Len(path))

\* sg_id = cls.sanitize_id(f"trace_{trace.id}")
sg_id(trace) == sanitize_id(<< "t", "r", "a", "c", "e", "_" >> \o trace.id)

\* loc_id = cls.sanitize_id(f"loc_{loc.id}")
loc_id(loc) == sanitize_id(<< "l", "o", "c", "_" >> \o loc.id)

\* f'    subgraph {sg_id}["{trace.id}. {title}"]'
subgraph_line(trace) ==
    << "    subgraph " >> \o sg_id(trace) \o << "[\"" >> \o trace.id \o << ". " >>
        \o escape_label(trace.title) \o << "\"]" >>

\* label = f"{loc_title}\\n{filename}:{loc.line_number}"
\* f'        {loc_id}["{label}"]'
node_line(loc) ==
    << "        " >> \o loc_id(loc) \o << "[\"" >> \o escape_label(loc.title)
        \o << "\\n" >> \o short_path(loc.path) \o << ":" >> \o str_int(loc.line_number)
        \o << "\"]" >>

\* f"    {a} --> {b}"
solid_edge(a, b) == << "    " >> \o loc_id(a) \o << " --> " >> \o loc_id(b)

\* f"    {a} -.-> {b}"
dashed_edge(a, b) == << "    " >> \o loc_id(a) \o << " -.-> " >> \o loc_id(b)

TRACE_COLORS ==
    << << "#e8f5e9", "#4caf50" >>, << "#e3f2fd", "#2196f3" >>,
       << "#fff3e0", "#ff9800" >>, << "#f3e5f5", "#9c27b0" >>,
       << "#fff8e1", "#ffc107" >>, << "#fce4ec", "#e91e63" >>,
       << "#e0f2f1", "#009688" >>, << "#fbe9e7", "#ff5722" >> >>

\* fill, stroke = cls.TRACE_COLORS[i % len(cls.TRACE_COLORS)]
\* f"    style {sg_id} fill:{fill},stroke:{stroke},stroke-width:2px"
\* for the trace at index i, counted from 0.
style_line(i, trace) ==
    LET colors == TRACE_COLORS[(i % Len(TRACE_COLORS)) + 1]
    IN  << "    style " >> \o sg_id(trace) \o << " fill:", colors[1], ",stroke:",
                                                  colors[2], ",stroke-width:2px" >>

\* The block of one trace with an edge drawn after every location, the last
\* one included (range(len(trace.locations)) for range(len(...) - 1)).
trace_block_edge_after_last(trace) ==
    LET locs == trace.locations
    IN  << << >>, subgraph_line(trace) >>
        \o [j \in 1 .. Len(locs) |-> node_line(locs[j])]
        \o << << "    end" >> >>
        \o [j \in 1 .. Len(locs) |-> solid_edge(locs[j], locs[IF j < Len(locs) THEN j + 1 ELSE 1])]

\* The lines the first loop appends for one trace.
trace_block(trace) ==
    LET locs == trace.locations
    IN  << << >>, subgraph_line(trace) >>
            \o [j \in 1 .. Len(locs) |-> node_line(locs[j])]
            \o << << "    end" >> >>
            \o [j \in 1 .. (Len(locs) - 1) |-> solid_edge(locs[j], locs[j + 1])]

\* The lines the second loop appends: between consecutive traces, if both
\* have locations.
inter_trace_edges(traces) ==
    LET linked == SelectSeq([i \in 1 .. (Len(traces) - 1) |-> i],
                            LAMBDA i : /\ traces[i].locations # << >>
                                       /\ traces[i + 1].locations # << >>)
    IN  [k \in 1 .. Len(linked) |->
            LET curr_locs == traces[linked[k]].locations
                next_locs == traces[linked[k] + 1].locations
            IN  dashed_edge(curr_locs[Len(curr_locs)], next_locs[1])]

\* The list `lines` of MermaidGenerator.generate at its return.
generate_lines(codemap) ==
    << << "flowchart TB" >> >>
        \o Concat([i \in 1 .. Len(codemap.traces) |-> trace_block(codemap.traces[i])])
        \o inter_trace_edges(codemap.traces)
        \o << << >> >>
        \o [i \in 1 .. Len(codemap.traces) |-> style_line(i - 1, codemap.traces[i])]

\* MermaidGenerator.generate: '\n'.join(lines)
generate(codemap) == Join(generate_lines(codemap), "\n")

(* ---------------------------------------------------------------------- *)
(* Response extractors                                                     *)
(* ---------------------------------------------------------------------- *)

\* The data of a response entry is text (a str) or an object (a dict).
Str(s) == [str |-> s]
Dict(d) == [dict |-> d]

\* isinstance(data, str)
isinstance_str(data) == "str" \in DOMAIN data

\* d.get(key, default) of a dict.
Get(d, key, default) == IF key \in DOMAIN d THEN d[key] ELSE default

Whitespace == { " ", "\n", "\t" }

\* s.strip()
strip(s) ==
    LET inked == { i \in 1 .. Len(s) : s[i] \notin Whitespace }
    IN  IF inked = { } THEN << >>
        ELSE SubSeq(s, CHOOSE i \in inked : \A j \in inked : i <= j,
                       CHOOSE i \in inked : \A j \in inked : j <= i)

\* s.startswith(prefix)
startswith(s, prefix) == Len(prefix) <= Len(s) /\ SubSeq(s, 1, Len(prefix)) = prefix

\* Number of newlines the text begins with.
RECURSIVE Newlines(_)
Newlines(s) == IF s # << >> /\ Head(s) = "\n" THEN 1 + Newlines(Tail(s)) ELSE 0

\* re.sub(r'\n{3,}', '\n\n', s)
RECURSIVE re_sub(_)
re_sub(s) ==
    IF s = << >> THEN << >>
    ELSE LET n == Newlines(s)
         IN  IF n = 0 THEN << Head(s) >> \o re_sub(Tail(s))
             ELSE (IF n >= 3 THEN << "\n", "\n" >> ELSE SubSeq(s, 1, n))
                  \o re_sub(SubSeq(s, n + 1, Len(s)))

Prefixes ==
    { << "I", "'", "l", "l", " ", "h", "e", "l", "p" >>,
      << "L", "e", "t", " ", "m", "e", " ", "s", "e", "a", "r", "c", "h" >>,
      << "I", "'", "l", "l", " ", "s", "e", "a", "r", "c", "h" >>,
      << ">", " ", "S", "e", "a", "r", "c", "h", "i", "n", "g" >> }

NoResponseData == << "No response data available." >>
NoReadableText == << "Response received but no readable text found." >>

\* The entry is kept by the loop of _extract_answer_from_response.
answer_chunk(item) ==
    LET item_type == Get(item, "type", None)
        data == Get(item, "data", Dict(None))
    IN  /\ item_type = "chunk"
        /\ isinstance_str(data)
        /\ LET trimmed == strip(data.str)
           IN  /\ trimmed # << >>
               /\ ~startswith(trimmed, << ">" >>)
               /\ \A prefix \in Prefixes : ~startswith(trimmed, prefix)

_extract_answer_from_response(result) ==
    LET queries == Get(result, "queries", << >>)
    IN  IF queries = << >> THEN NoResponseData
        ELSE LET response_data == Get(queries[Len(queries)], "response", << >>)
                 answer_chunks == SelectSeq(response_data, answer_chunk)
             IN  IF response_data = << >> THEN NoResponseData
                 ELSE IF answer_chunks # << >>
                 THEN strip(re_sub(Concat([i \in 1 .. Len(answer_chunks) |->
                                              answer_chunks[i].data.str])))
                 ELSE NoReadableText

\* The objects the JSON texts of the response entries encode: a codemap, an
\* object without a traces key, and an object with traces but without the
\* title and description a Codemap requires.
CodemapObject ==
    [title |-> << "a" >>, description |-> << "c" >>,
     traces |-> << [id |-> << "1" >>, title |-> << "a" >>,
                    locations |-> << [id |-> << "1" >>, title |-> << "a" >>,
                                      path |-> << "a", "/", "c", "/", "e" >>,
                                      line_number |-> 12] >>] >>]

NotesObject == [notes |-> << "a" >>]

UntitledObject == [traces |-> CodemapObject.traces]

\* A JSON text of an object is its braces around the text of its members,
\* which is kept as one piece.
Encoded(members) == << "{", members, "}" >>

JsonCodemap == Encoded("\"title\": .., \"description\": .., \"traces\": [..]")
JsonNotes == Encoded("\"notes\": ..")
JsonUntitled == Encoded("\"traces\": [..]")

\* json.loads(s) returns a value (else it raises JSONDecodeError).
Decodable(s) == s \in { JsonCodemap, JsonNotes, JsonUntitled }

\* json.loads(s)
json_loads(s) ==
    CASE s = JsonCodemap -> CodemapObject
      [] s = JsonNotes -> NotesObject
      [] s = JsonUntitled -> UntitledObject

\* bool(data) of the data of a response entry.
truthy(data) == IF isinstance_str(data) THEN data.str # << >> ELSE DOMAIN data.dict # { }

\* Codemap(**data) passes validation: title, traces and description are
\* required fields (lines 185-188).
Validates(data) == { "title", "traces", "description" } \subseteq DOMAIN data

\* Codemap(**data); of the fields of a Codemap the traces are kept.
Codemap(data) == [traces |-> data.traces]

\* The loop of extract_codemap over the entries from the first one on.  An
\* exception raised in it (by json.loads or by Codemap) is caught by the
\* except clause of the function, which returns None.
RECURSIVE codemap_of(_)
codemap_of(response_data) ==
    IF response_data = << >> THEN None
    ELSE LET chunk == Head(response_data)
             data == Get(chunk, "data", Dict(None))
         IN  IF Get(chunk, "type", None) = "chunk" /\ truthy(data)
             THEN IF isinstance_str(data) /\ ~Decodable(data.str)
                  THEN None
                  ELSE LET decoded == IF isinstance_str(data) THEN json_loads(data.str)
                                                             ELSE data.dict
                       IN  IF Get(decoded, "traces", << >>) # << >>
                           THEN IF Validates(decoded) THEN Some(Codemap(decoded))
                                                      ELSE None
                           ELSE codemap_of(Tail(response_data))
             ELSE codemap_of(Tail(response_data))

extract_codemap(query_response) ==
    LET queries == Get(query_response, "queries", << >>)
    IN  IF queries = << >> THEN None
        ELSE LET response_data == Get(queries[Len(queries)], "response", << >>)
             IN  IF response_data = << >> THEN None
                 ELSE codemap_of(response_data)

\* The values of QueryMode.
QueryMode == { "fast", "deep", "codemap" }

\* The payload with the diagram added for every mode (the test of line 534
\* without `mode == QueryMode.CODEMAP`).
formatted_for_every_mode(query_id, question, repos, mode, include_mermaid, result) ==
    LET codemap == IF include_mermaid THEN extract_codemap(result) ELSE None
    IN  [query_id |-> query_id, status |-> "completed", question |-> question,
         repos |-> repos, mode |-> mode, queries |-> Get(result, "queries", << >>)]
        @@ (IF codemap # None
            THEN [mermaid_diagram |-> generate(codemap[1]), codemap |-> codemap[1]]
            ELSE << >>)

\* The result payload execute_query_background builds from the result of
\* poll_until_done (lines 523-538).
formatted(query_id, question, repos, mode, include_mermaid, result) ==
    LET codemap == IF include_mermaid /\ mode = "codemap"
                   THEN extract_codemap(result) ELSE None
    IN  [query_id |-> query_id, status |-> "completed", question |-> question,
         repos |-> repos, mode |-> mode, queries |-> Get(result, "queries", << >>)]
        @@ (IF codemap # None
            THEN [mermaid_diagram |-> generate(codemap[1]), codemap |-> codemap[1]]
            ELSE << >>)

Init ==
    /\ tasks = << >>
    /\ order = << >>
    /\ now = 0
    /\ ticks = 0
    /\ created = 0
    /\ units = EmptyBag
    /\ permits = max_concurrent_queries
    /\ waiters = << >>
    /\ clients = 0
    /\ call = NoCall

Next ==
    \/ \E repos \in ReposInputs : deepwiki_query_invalid(repos)
    \/ \E repos \in ReposInputs, task_id \in TaskIds : deepwiki_query(repos, task_id)
    \/ \E task_id \in TaskIds : deepwiki_check_task(task_id)
    \/ Tick
    \/ \E un \in BagToSet(units) : UnitStart(un)
    \/ Acquire
    \/ \E un \in BagToSet(units), resp \in SubmitResponses : SubmitResponse(un, resp)
    \/ \E un \in BagToSet(units) : PollWake(un)
    \/ \E un \in BagToSet(units), resp \in StatusResponses : StatusResponse(un, resp)

Spec == Init /\ [][Next]_vars

\* The client alone, one call made on it.
\* The event loop runs every coroutine that is ready, and every request is
\* answered: a unit whose acquire() can return is resumed, and a POST in
\* flight comes back.
FairSpec ==
    /\ Spec
    /\ WF_vars(Acquire)
    /\ WF_vars(\E un \in BagToSet(units), resp \in SubmitResponses : SubmitResponse(un, resp))

ClientNext ==
    \/ \E fn \in ClientMethods : ClientCall(fn)
    \/ ClientPollWake
    \/ \E resp \in ClientStatusOk \cup ClientStatusFailures \cup TransportFailures :
           ClientResponse(resp)

ClientSpec == Init /\ [][ClientNext]_vars

(* ---------------------------------------------------------------------- *)
(* The functions of the module called on their own                         *)
(* ---------------------------------------------------------------------- *)

SeqsUpTo(S, n) == UNION { [1 .. k -> S] : k \in 0 .. n }

\* The locations and the trace ids and titles the codemaps are made of:
\* plain ones, and ones with the characters the generator has to deal with.
Locations ==
    { [id |-> << "1" >>, title |-> << "a" >>,
       path |-> << "a", "/", "c", "/", "e" >>, line_number |-> 12],
      [id |-> << "a", "-", "\"" >>, title |-> << "a", "\"", "\n", "c" >>,
       path |-> << "a", "\"", "e" >>, line_number |-> 7] }

TraceHeads ==
    { [id |-> << "1" >>, title |-> << "a" >>],
      [id |-> << "2" >>, title |-> << "a", "\"", "c", "\n", "e" >>],
      [id |-> << "a", "\n", "\"", "-" >>, title |-> << "c" >>] }

Traces ==
    { [id |-> h.id, title |-> h.title, locations |-> locs] :
        h \in TraceHeads, locs \in SeqsUpTo(Locations, MaxLocations) }

Codemaps == { [traces |-> ts] : ts \in SeqsUpTo(Traces, MaxTraces) }

Chunk(data) == [type |-> "chunk", data |-> data]

TextHelp == << "I", "'", "l", "l", " ", "h", "e", "l", "p", " ", "y", "o", "u" >>
TextAnswer == << "A", "c", "t", "u", "a", "l", " ", "a", "n", "s", "w", "e", "r", "." >>
TextSearching == << ">", " ", "s", "e", "a", "r", "c", "h", "i", "n", "g" >>
TextParagraph == << "\n", "\n", "c", "\n", "\n" >>
TextBreak == << "\n", "\n" >>
TextIndented == << " ", ">", " ", "c" >>

\* Entries of a response list: answer text, progress and preamble text, text
\* with newlines around it, whitespace alone, a summary entry.
AnswerItems ==
    { Chunk(Str(TextHelp)), Chunk(Str(TextAnswer)), Chunk(Str(TextSearching)),
      Chunk(Str(TextParagraph)), Chunk(Str(TextBreak)), Chunk(Str(TextIndented)),
      [type |-> "summary_chunk", data |-> Str(TextAnswer)] }

\* Entries of the response list of a codemap query: plain text, the JSON
\* text of a codemap and the codemap as an object, the JSON text of other
\* objects, an entry of another type.
CodemapItems ==
    { Chunk(Str(TextAnswer)), Chunk(Str(JsonCodemap)), Chunk(Dict(CodemapObject)),
      Chunk(Str(JsonNotes)), Chunk(Str(JsonUntitled)),
      [type |-> "file_contents", data |-> Dict(NotesObject)] }

\* An earlier sub-query of the same result, or none.
EarlierQueries ==
    { << >>, << [state |-> "done", response |-> << Chunk(Str(TextHelp)), Chunk(Str(TextParagraph)) >>] >> }

\* Completed results: the payloads of a status call whose last sub-query is
\* done, and the payload without sub-queries.
ResultsOf(items) ==
    { [queries |-> << >>] } \cup
    { [queries |-> earlier \o << [state |-> "done", response |-> response] >>] :
        earlier \in EarlierQueries, response \in SeqsUpTo(items, MaxChunks) }

\* A function is called with an argument.
Called(fn, arg) == [fn |-> fn, pc |-> "called", arg |-> arg, result |-> None]

FunctionInit ==
    /\ tasks = << >>
    /\ order = << >>
    /\ now = 0
    /\ ticks = 0
    /\ created = 0
    /\ units = EmptyBag
    /\ permits = max_concurrent_queries
    /\ waiters = << >>
    /\ clients = 0
    /\ \/ \E codemap \in Codemaps : call = Called("generate", codemap)
       \/ \E result \in ResultsOf(AnswerItems) :
             call = Called("_extract_answer_from_response", result)
       \/ \E result \in ResultsOf(CodemapItems) :
             call = Called("extract_codemap", result)
       \/ \E mode \in QueryMode, include_mermaid \in BOOLEAN,
             result \in ResultsOf(CodemapItems) :
             call = Called("formatted",
                           [question |-> "question", repos |-> << GoodRepo >>,
                            mode |-> mode, include_mermaid |-> include_mermaid,
                            result |-> result])

Generate ==
    /\ call.fn = "generate"
    /\ call.pc = "called"
    /\ call' = Returns(call, generate(call.arg))
    /\ UNCHANGED << tasks, order, now, ticks, created, units, permits, waiters, clients >>

ExtractAnswer ==
    /\ call.fn = "_extract_answer_from_response"
    /\ call.pc = "called"
    /\ call' = Returns(call, _extract_answer_from_response(call.arg))
    /\ UNCHANGED << tasks, order, now, ticks, created, units, permits, waiters, clients >>

ExtractCodemap ==
    /\ call.fn = "extract_codemap"
    /\ call.pc = "called"
    /\ call' = Returns(call, extract_codemap(call.arg))
    /\ UNCHANGED << tasks, order, now, ticks, created, units, permits, waiters, clients >>

\* Lines 523-538 of execute_query_background, on the result of a poll.
FormatResults ==
    /\ call.fn = "formatted"
    /\ call.pc = "called"
    /\ call' = Returns(call, formatted("query_id", call.arg.question, call.arg.repos,
                                       call.arg.mode, call.arg.include_mermaid,
                                       call.arg.result))
    /\ UNCHANGED << tasks, order, now, ticks, created, units, permits, waiters, clients >>

FunctionNext ==
    \/ Generate
    \/ ExtractAnswer
    \/ ExtractCodemap
    \/ FormatResults

FunctionSpec == FunctionInit /\ [][FunctionNext]_vars

(* ---------------------------------------------------------------------- *)
(* Properties                                                              *)
(* ---------------------------------------------------------------------- *)

RetentionWindow == TASK_EXPIRY_HOURS * 3600

Age(T, tid) == now - T[tid].created_at

\* The unit un is in the bag and this step is the last of its coroutine.
UnitEnds(un) ==
    /\ BagIn(un, units)
    /\ units' = units (-) SetToBag({un})
    /\ waiters' = waiters

\* This step is one call of deepwiki_check_task: of all the actions only it
\* can change the store and nothing else.
CheckStep ==
    /\ tasks' # tasks
    /\ UNCHANGED << now, ticks, created, units, permits, waiters, call, clients >>

\* This step is a call of deepwiki_query that inserts a record under task_id.
QueryStep(task_id) ==
    /\ created' = created + 1
    /\ units' = units (+) SetToBag({NewUnit(task_id)})

LegalMove(from, to) ==
    \/ from = to
    \/ from = "pending" /\ to = "running"
    \/ from = "running" /\ to \in {"completed", "failed"}

\* C1: apart from the insertion of a new record, the status of a stored
\* record changes in no step other than pending -> running,
\* running -> completed and running -> failed; a completed or failed status
\* never changes.
C1_StatusLifecycle ==
    [][created' = created =>
         \A tid \in DOMAIN tasks \cap DOMAIN tasks' :
             LegalMove(tasks[tid].status, tasks'[tid].status)]_vars

TransportMessages ==
    { << "Request timed out. Try 'fast' mode or simpler query." >>,
      << "Network error" >> }

StatusMessages == { status_error(resp.code, resp.text) : resp \in StatusFailures }

\* The unit un has a request in flight and ends in this step with the error
\* message msg written to its record: the error of that request is surfaced.
Surfaces(un, msg) ==
    /\ un.pc \in {"submit", "status"}
    /\ UnitEnds(un)
    /\ un.tid \in DOMAIN tasks
    /\ tasks' = MarkFailed(tasks, un.tid, msg, now)

\* C2: a timeout or connection failure is surfaced to the caller of _request
\* only after the third attempt has failed.
C2_TransportFailureSurfacedAfterThreeAttempts ==
    [][\A un \in BagToSet(units), msg \in TransportMessages :
          Surfaces(un, msg) => un.attempts = STOP_AFTER_ATTEMPT]_vars

\* C3: the store never holds more than MAX_TASKS records.
C3_StoreWithinCapacity == Cardinality(DOMAIN tasks) <= MAX_TASKS

\* C4: a unit that ends in an error leaves its record in the store, with
\* status failed and an error message that deepwiki_check_task reports.
C4_UnitErrorIsRecorded ==
    [][\A un \in BagToSet(units) :
          (/\ UnitEnds(un)
           /\ ~(un.tid \in DOMAIN tasks /\ tasks' = MarkCompleted(tasks, un.tid, now)))
          => /\ un.tid \in DOMAIN tasks'
             /\ tasks'[un.tid].status = "failed"
             /\ tasks'[un.tid].error # None
             /\ CheckReport(tasks', un.tid) =
                    [out |-> "failed", err |-> tasks'[un.tid].error]]_vars

\* C5: the record of a created task reaches a terminal status: no record
\* leaves the store while it is still pending or running.
C5_RecordReachesTerminalStatus ==
    [][\A tid \in DOMAIN tasks :
          tid \notin DOMAIN tasks' => tasks[tid].status \in {"completed", "failed"}]_vars

\* C6: deepwiki_query inserts its record under an identifier that the store,
\* swept by the same call, does not hold.
C6_QueryInsertsUnderFreshId ==
    [][\A task_id \in TaskIds :
          QueryStep(task_id) =>
              task_id \notin DOMAIN cleanup_old_tasks(tasks, order, now).tasks]_vars

\* C7: no record that is pending or running and within the retention window
\* is deleted.
C7_LiveRecordsNotEvicted ==
    [][\A tid \in DOMAIN tasks :
          tid \notin DOMAIN tasks' =>
              ~(/\ tasks[tid].status \in {"pending", "running"}
                /\ Age(tasks, tid) <= RetentionWindow)]_vars

\* C8: the store cleanup_old_tasks leaves, whatever reachable store it is
\* called on, has no record older than the retention window and at most
\* MAX_TASKS records.
C8_SweptStoreIsFreshAndBounded ==
    LET swept == cleanup_old_tasks(tasks, order, now).tasks
    IN  /\ \A tid \in DOMAIN swept : Age(swept, tid) <= RetentionWindow
        /\ Cardinality(DOMAIN swept) <= MAX_TASKS

\* A sweep has deleted every record for being older than the window.
C8_Witness ==
    /\ created > 0
    /\ DOMAIN tasks = {}
    /\ now > RetentionWindow

\* C9: a sweep that finds more than MAX_TASKS unexpired records deletes
\* exactly the excess of them, and no survivor was created before a record
\* it deleted.
C9_CapacityEvictsOldest ==
    [][LET unexpired == {tid \in DOMAIN tasks : Age(tasks, tid) <= RetentionWindow}
           deleted   == unexpired \ DOMAIN tasks'
       IN  (CheckStep /\ Cardinality(unexpired) > MAX_TASKS) =>
               /\ Cardinality(deleted) = Cardinality(unexpired) - MAX_TASKS
               /\ DOMAIN tasks' = unexpired \ deleted
               /\ \A kept \in DOMAIN tasks', gone \in deleted :
                      tasks[kept].created_at >= tasks[gone].created_at]_vars

\* A sweep has deleted a record for capacity alone: at time 0 nothing is
\* expired, the store is full, and a unit's record is gone.
C9_Witness ==
    /\ now = 0
    /\ Cardinality(DOMAIN tasks) = MAX_TASKS
    /\ \E un \in BagToSet(units) : un.tid \notin DOMAIN tasks

\* C10: a response with a non-2xx status is never followed by another
\* attempt of the same call, and its error is surfaced by the first attempt.
C10_StatusErrorsNotRetried ==
    [][/\ \A un \in BagToSet(units'), resp \in StatusFailures :
             ~(un.attempts > 1 /\ un.last.code = resp.code)
       /\ \A un \in BagToSet(units), msg \in StatusMessages :
             Surfaces(un, msg) => un.attempts = 1]_vars

\* A rate-limit response has been surfaced into a record.
C10_Witness ==
    \E tid \in DOMAIN tasks :
        tasks[tid].error = Some(<< "Rate limit exceeded. Please try again later." >>)

\* C11: a response whose status is not 2xx makes _request raise, and the
\* error it raises is the rate-limit error exactly when the status is 429,
\* the server error exactly when it is another status >= 500, the not-found
\* error exactly when it is 404, and in every other case the request failure
\* that carries the body of the response.
C11_StatusErrorClass ==
    [][\A resp \in ClientStatusFailures :
          ClientResponse(resp) =>
              /\ call'.pc = "raised"
              /\ LET msg == call'.error[1]
                     s   == resp.code
                 IN  /\ (s = 429) <=>
                            (msg = << "Rate limit exceeded. Please try again later." >>)
                     /\ (s # 429 /\ s >= 500) <=>
                            (Len(msg) = 3 /\ msg[1] = "Server error (")
                     /\ (s = 404) <=>
                            (msg = << "Resource not found. Check query ID or repository name." >>)
                     /\ (s \notin {404, 429} /\ s < 500) <=>
                            (msg = << "Request failed: ", resp.text >>)]_vars

\* A request has been answered 403 and the call has raised the request
\* failure with the body of that response.
C11_Witness ==
    /\ call.pc = "raised"
    /\ call.error = Some(<< "Request failed: ", "forbidden" >>)

\* C12: in every reachable state, a call of deepwiki_query with a list in
\* which some identifier has no '/' returns the validation error, hands no
\* unit to the event loop (so no request is sent on its behalf) and leaves
\* the store as it is: same keys, same records, same order.
C12_InvalidReposRejected ==
    \A repos \in ReposInputs, task_id \in TaskIds :
        (\E i \in 1 .. Len(repos) : ~HasSlash(repos[i])) =>
            LET r == deepwiki_query_call(tasks, order, now, repos, task_id)
            IN  /\ r.out = "Error: Invalid repository format"
                /\ r.scheduled = {}
                /\ r.tasks = tasks
                /\ r.order = order

\* The rejected call finds a store that a call passing validation would
\* change by its sweep and by its insertion, and units at work.
C12_Witness ==
    /\ cleanup_old_tasks(tasks, order, now).tasks # tasks
    /\ units # EmptyBag
    /\ \E repos \in ReposInputs :
           /\ HasSlash(repos[1])
           /\ deepwiki_query_call(tasks, order, now, repos, 1).tasks = tasks

\* The units whose POST of submit_query is sent and not yet answered.
SubmitsInFlight ==
    [un \in {u \in BagToSet(units) : u.pc = "submit"} |-> CopiesIn(un, units)]

\* C13: at most max_concurrent_queries submit requests are in flight at any
\* time, each holding one permit; with the maximum at 1, as it is here, a
\* second submission is not sent while the first is unanswered.
C13_SubmitsWithinPermits ==
    /\ BagCardinality(SubmitsInFlight) <= max_concurrent_queries
    /\ permits = max_concurrent_queries - BagCardinality(SubmitsInFlight)

\* One submission is in flight and holds the only permit; a second unit has
\* reached submit_query and waits in acquire().
C13_Witness ==
    /\ BagCardinality(SubmitsInFlight) = max_concurrent_queries
    /\ Len(waiters) > 0
    /\ waiters[1].pc = "acquire"

\* The states the status calls of poll_until_done have reported so far are
\* n in number and all of them `running`.
ReportedRunning(n) ==
    /\ call.fn = "poll_until_done"
    /\ Len(call.seen) = n
    /\ \A i \in 1 .. n : call.seen[i] = "running"

TimedOut == call.pc = "raised" /\ call.error = Some(PollTimeout)

\* C14: once the status call has reported `running` poll_max_attempts - 1
\* times in a row, poll_until_done has raised the timeout error.
C14_TimeoutAfterCeilingMinusOne == ReportedRunning(poll_max_attempts - 1) => TimedOut

\* C14, amended: poll_until_done has raised the timeout error exactly when
\* its status calls have reported poll_max_attempts states in a row of which
\* none is done or failed; after fewer it sleeps or polls.
C14_TimeoutAtCeiling ==
    call.fn = "poll_until_done" =>
        (TimedOut <=>
            /\ Len(call.seen) = poll_max_attempts
            /\ \A i \in 1 .. Len(call.seen) : call.seen[i] \notin {"done", "failed"})

\* The status call has reported `running` poll_max_attempts times and the
\* timeout error is raised.
C14_Witness == ReportedRunning(poll_max_attempts) /\ TimedOut

Contains(msg, piece) == \E i \in 1 .. Len(msg) : msg[i] = piece

\* C15: while poll_until_done is still polling, no status call has reported
\* done or failed.  The response that reports done makes it return that
\* response's payload whole; the response that reports failed makes it raise
\* an error whose message contains the entry's `error`, or "Query failed"
\* when the entry has none.  Once it has returned or raised, the call takes
\* no further step: no status call follows.
C15_PollEndsAtFirstTerminalState ==
    [][/\ (call.fn = "poll_until_done" /\ call.pc \in {"sleep", "request"}) =>
              \A i \in 1 .. Len(call.seen) : call.seen[i] \notin {"done", "failed"}
       /\ \A resp \in ClientStatusOk :
              (call.fn = "poll_until_done" /\ ClientResponse(resp)) =>
                  /\ resp.state = "done" =>
                         call'.pc = "returned" /\ call'.result = Some(resp)
                  /\ resp.state = "failed" =>
                         /\ call'.pc = "raised"
                         /\ call'.error[1][1] = "Query failed: "
                         /\ Contains(call'.error[1],
                                     IF resp.error = None THEN "Query failed"
                                     ELSE resp.error[1])
       /\ call.pc \notin {"returned", "raised"}]_vars

\* After one report of `running` the second status call reported failed with
\* the service's message, and the error raised carries that message.
C15_Witness ==
    /\ call.fn = "poll_until_done"
    /\ call.seen = << "running", "failed" >>
    /\ call.pc = "raised"
    /\ Contains(call.error[1], "repository not indexed")

Absent(v) == v = None

\* The fields of a record agree with its status.
Consistent(rec) ==
    /\ rec.status \in {"pending", "running"} =>
           Absent(rec.completed_at) /\ Absent(rec.result) /\ Absent(rec.error)
    /\ rec.status = "completed" => ~Absent(rec.result) /\ ~Absent(rec.completed_at)
    /\ rec.status = "failed" => ~Absent(rec.error) /\ ~Absent(rec.completed_at)

\* C16: every record of the store, in every state a call of
\* deepwiki_check_task can find it in, has the fields its status calls for:
\* none of completed_at, result and error while pending or running, result
\* and completed_at once completed, error and completed_at once failed.
C16_RecordsConsistent == \A tid \in DOMAIN tasks : Consistent(tasks[tid])

\* This step is a call of a tool handler, the only callers of the sweep.
HandlerStep == CheckStep \/ \E task_id \in TaskIds : QueryStep(task_id)

\* C17: a key leaves the store only in a handler's step, and only if the
\* sweep of that call deletes it; and a completed record that is not swept
\* stays as it is, result included, whatever step is taken, so that
\* deepwiki_check_task keeps reporting the same result.
C17_OnlySweepRemoves ==
    [][\A tid \in DOMAIN tasks :
          /\ tid \notin DOMAIN tasks' =>
                 /\ HandlerStep
                 /\ tid \notin DOMAIN cleanup_old_tasks(tasks, order, now).tasks
          /\ (tasks[tid].status = "completed" /\ tid \in DOMAIN tasks') =>
                 /\ tasks'[tid] = tasks[tid]
                 /\ CheckReport(tasks', tid) = [out |-> "completed", err |-> None]]_vars

\* The units of U that have a request sent and not answered.
Requests(U) ==
    [un \in {u \in BagToSet(U) : u.pc \in {"submit", "status"}} |-> CopiesIn(un, U)]

\* C18: the step of deepwiki_query that inserts a record leaves that record
\* pending and without result, and sends no request: the requests in flight
\* are those in flight before, and the unit of the new task has not run.
\* The step of deepwiki_check_task leaves every unit and every request
\* where it was.
C18_HandlersSendNoRequest ==
    [][/\ \A task_id \in TaskIds :
             QueryStep(task_id) =>
                 /\ task_id \in DOMAIN tasks'
                 /\ tasks'[task_id].status = "pending"
                 /\ Absent(tasks'[task_id].result)
                 /\ Requests(units') = Requests(units)
                 /\ \E un \in BagToSet(units') :
                        /\ un.tid = task_id /\ un.pc = "created"
                        /\ CopiesIn(un, units') = CopiesIn(un, units) + 1
       /\ CheckStep => Requests(units') = Requests(units)]_vars

\* deepwiki_query has returned while the request of an earlier task is in
\* flight: the new record is pending and its unit has not run.
C18_Witness ==
    /\ BagCardinality(Requests(units)) > 0
    /\ \E un \in BagToSet(units) :
           /\ un.pc = "created"
           /\ un.tid \in DOMAIN tasks
           /\ tasks[un.tid].status = "pending"

\* The unit v is in the bag after this step and was not, or not as often,
\* before it: a coroutine has arrived at v in this step.
Arrives(v) == CopiesIn(v, units') > CopiesIn(v, units)

SubmitFailed(resp) == request_body(resp).raised

\* This step is a step of the unit un: it leaves the state it was
\* suspended in.
UnitStep(un) == CopiesIn(un, units') = CopiesIn(un, units) - 1

\* C19: a unit starts its first sleep before a status call only in the step
\* in which its POST is answered 2xx; it sends a status call only on waking
\* from that sleep, and sleeps again only when its status call is answered,
\* so that it never has two requests unanswered; and the step in which its
\* POST fails is the unit's last, so that it never sends a status call.
C19_SubmitThenSequentialPolls ==
    [][units' # units =>
        /\ \A v \in BagToSet(units') :
              (v.pc \in {"sleep", "status"} /\ Arrives(v)) =>
                  /\ (v.pc = "sleep" /\ v.polls = 0) =>
                         \E u \in BagToSet(units), resp \in SubmitResponses :
                             /\ ~SubmitFailed(resp)
                             /\ SubmitResponse(u, resp)
                             /\ v = [u EXCEPT !.pc = "sleep"]
                  /\ (v.pc = "sleep" /\ v.polls > 0) =>
                         \E u \in BagToSet(units), resp \in StatusResponses :
                             /\ StatusResponse(u, resp)
                             /\ v = [u EXCEPT !.pc = "sleep"]
                  /\ v.pc = "status" =>
                         \E u \in BagToSet(units) :
                             /\ u.pc = "sleep"
                             /\ u.tid = v.tid
                             /\ v.polls = u.polls + 1
                             /\ UnitStep(u)
        /\ \A u \in BagToSet(units) :
              (u.pc = "submit" /\ UnitStep(u)) =>
                  \A resp \in SubmitResponses :
                      (SubmitFailed(resp) /\ SubmitResponse(u, resp)) => UnitEnds(u)]_vars

\* A unit whose POST was answered 2xx has made its first status call, was
\* told the query is not finished, and has sent its second.
C19_Witness ==
    \E un \in BagToSet(units) : un.pc = "status" /\ un.polls = 2

\* C20: a record that is in the store before and after a step is changed by
\* that step only if the step is one of a background unit created for that
\* record's task; the handlers and the units of other tasks leave it as it is.
C20_RecordWrittenByOwnUnitOnly ==
    [][\A tid \in DOMAIN tasks \cap DOMAIN tasks' :
          tasks'[tid] # tasks[tid] =>
              /\ created' = created
              /\ \E un \in BagToSet(units) : un.tid = tid /\ UnitStep(un)]_vars

(* ---------------------------------------------------------------------- *)
(* MermaidGenerator.generate                                               *)
(* ---------------------------------------------------------------------- *)

\* Number of places of the text s that hold the piece x.
Count(s, x) == Cardinality({ i \in 1 .. Len(s) : s[i] = x })

RECURSIVE Sum(_)
Sum(ns) == IF ns = << >> THEN 0 ELSE Head(ns) + Sum(Tail(ns))

\* generate has returned the text of the diagram of the codemap call.arg.
Generated == call.fn = "generate" /\ call.pc = "returned"

\* At least one trace, and at least one location in every trace.
EveryTraceLocated(codemap) ==
    /\ codemap.traces # << >>
    /\ \A i \in 1 .. Len(codemap.traces) : codemap.traces[i].locations # << >>

\* C21: for a codemap with at least one trace and at least one location in
\* every trace, the diagram has one subgraph block (opened by "subgraph",
\* closed by "end") per trace, one node line per location, one solid edge
\* fewer than locations in every trace, and one dashed edge fewer than
\* traces.
C21_BlocksNodesAndEdges ==
    (Generated /\ EveryTraceLocated(call.arg)) =>
        LET text == call.result[1]
            traces == call.arg.traces
            locations == [i \in 1 .. Len(traces) |-> Len(traces[i].locations)]
        IN  /\ Count(text, "    subgraph ") = Len(traces)
            /\ Count(text, "    end") = Len(traces)
            /\ Count(text, "        ") = Sum(locations)
            /\ Count(text, " --> ") = Sum([i \in 1 .. Len(traces) |-> locations[i] - 1])
            /\ Count(text, " -.-> ") = Len(traces) - 1

\* A diagram of two traces, one of them with two locations.
C21_Witness ==
    /\ Generated
    /\ EveryTraceLocated(call.arg)
    /\ Len(call.arg.traces) = 2
    /\ \E i \in 1 .. 2 : Len(call.arg.traces[i].locations) = 2

\* The lines of a text: the parts between its newline characters.
RECURSIVE Split(_, _)
Split(s, sep) ==
    IF \A i \in 1 .. Len(s) : s[i] # sep
    THEN << s >>
    ELSE LET i == CHOOSE k \in 1 .. Len(s) : s[k] = sep /\ \A m \in 1 .. (k - 1) : s[m] # sep
         IN  << SubSeq(s, 1, i - 1) >> \o Split(SubSeq(s, i + 1, Len(s)), sep)

\* The lines of the diagram that declare a group or a node.
Declarations(text) ==
    LET lines == Split(text, "\n")
    IN  { lines[i] : i \in { k \in 1 .. Len(lines) :
            lines[k] # << >> /\ lines[k][1] \in { "    subgraph ", "        " } } }

\* The line is indent, name, an opening bracket and quote, the label, and the
\* closing quote and bracket at its end; open is the place of the opening.
Declares(line, open) ==
    /\ open \in 2 .. (Len(line) - 1)
    /\ line[open] = "[\""
    /\ line[Len(line)] = "\"]"

NameOf(line, open) == SubSeq(line, 2, open - 1)

LabelOf(line, open) == SubSeq(line, open + 1, Len(line) - 1)

SafeName(name) == \A i \in 1 .. Len(name) : isalnum(name[i]) \/ name[i] = "_"

SafeLabel(label) == \A i \in 1 .. Len(label) : label[i] \notin { "\"", "\n", "[\"", "\"]" }

\* C22: every line of the diagram that declares a group or a node is a name
\* of alphanumerics and underscores followed by a quoted label with no raw
\* double quote and no newline in it, whatever the codemap holds.
C22_NamesAndLabelsSafe ==
    Generated =>
        \A line \in Declarations(call.result[1]) :
            \E open \in 1 .. Len(line) :
                /\ Declares(line, open)
                /\ SafeName(NameOf(line, open))
                /\ SafeLabel(LabelOf(line, open))

\* The lines of the text that begin with the piece indent, in order.
LinesWith(text, indent) ==
    SelectSeq(Split(text, "\n"), LAMBDA line : line # << >> /\ line[1] = indent)

Labelled(line, label) ==
    \E open \in 1 .. Len(line) : Declares(line, open) /\ LabelOf(line, open) = label

\* The locations of all the traces, in order.
AllLocations(traces) == Concat([i \in 1 .. Len(traces) |-> traces[i].locations])

\* C23: the block of the trace at position k is labelled with k (counted
\* from 0 throughout or from 1 throughout) and the trace's title, and every
\* node with its location's title, the base name of the path and the line
\* number.
C23_LabelsByPosition ==
    Generated =>
        LET text == call.result[1]
            traces == call.arg.traces
            groups == LinesWith(text, "    subgraph ")
            nodes == LinesWith(text, "        ")
            locs == AllLocations(traces)
        IN  /\ Len(groups) = Len(traces)
            /\ \E first \in { 0, 1 } :
                  \A k \in 1 .. Len(traces) :
                      Labelled(groups[k], str_int(k - 1 + first) \o << ". " >>
                                              \o escape_label(traces[k].title))
            /\ Len(nodes) = Len(locs)
            /\ \A j \in 1 .. Len(locs) :
                  Labelled(nodes[j], escape_label(locs[j].title) \o << "\\n" >>
                                         \o short_path(locs[j].path) \o << ":" >>
                                         \o str_int(locs[j].line_number))

(* ---------------------------------------------------------------------- *)
(* The response extractors                                                 *)
(* ---------------------------------------------------------------------- *)

\* _extract_answer_from_response has returned the answer of the result
\* call.arg.
Extracted == call.fn = "_extract_answer_from_response" /\ call.pc = "returned"

\* The response list of the last sub-query of the result.
LastResponse(result) ==
    LET queries == Get(result, "queries", << >>)
    IN  IF queries = << >> THEN << >> ELSE Get(queries[Len(queries)], "response", << >>)

\* An entry of the primary answer type whose text begins neither with the
\* progress marker nor with a preamble phrase.
Retained(item) ==
    /\ item.type = "chunk"
    /\ isinstance_str(item.data)
    /\ ~startswith(item.data.str, << ">" >>)
    /\ \A prefix \in Prefixes : ~startswith(item.data.str, prefix)

\* C24: the answer is the texts of the retained entries of the last
\* sub-query's response, concatenated in order, with runs of three or more
\* newlines collapsed to two and the whitespace around trimmed; it is a fixed
\* placeholder when no entry is retained (or when that text is empty).
C24_AnswerIsRetainedText ==
    Extracted =>
        LET kept == SelectSeq(LastResponse(call.arg), Retained)
            text == strip(re_sub(Concat([i \in 1 .. Len(kept) |-> kept[i].data.str])))
        IN  IF kept = << >>
            THEN call.result[1] \in { NoResponseData, NoReadableText }
            ELSE call.result[1] \in
                    { text } \cup (IF text = << >> THEN { NoReadableText } ELSE { })

\* extract_codemap has returned for the result call.arg.
CodemapExtracted == call.fn = "extract_codemap" /\ call.pc = "returned"

\* The entry is a chunk whose decoded object has a traces key (and the other
\* fields of a Codemap).
HasTraces(item) ==
    /\ item.type = "chunk"
    /\ IF isinstance_str(item.data)
       THEN Decodable(item.data.str) /\ Validates(json_loads(item.data.str))
       ELSE Validates(item.data.dict)

\* C27: extract_codemap returns a Codemap when the response list of the
\* last sub-query has a chunk whose decoded object has a traces key, whatever
\* the entries before it, and returns nothing only when it has none.
C27_CodemapFoundWheneverPresent ==
    CodemapExtracted =>
        (call.result[1] # None <=>
            \E i \in 1 .. Len(LastResponse(call.arg)) : HasTraces(LastResponse(call.arg)[i]))

\* The result payload of a completed query has been built from call.arg.
Formatted == call.fn = "formatted" /\ call.pc = "returned"

\* C25: the result payload has the diagram and the Codemap, both or neither,
\* and has them only when the mode is codemap and include_mermaid is set; it
\* always echoes the question, the repositories, the mode and the raw queries
\* of the result.
C25_DiagramOnlyForCodemapMode ==
    Formatted =>
        LET payload == call.result[1]
            asked == call.arg
        IN  /\ "mermaid_diagram" \in DOMAIN payload <=> "codemap" \in DOMAIN payload
            /\ "mermaid_diagram" \in DOMAIN payload =>
                  asked.mode = "codemap" /\ asked.include_mermaid
            /\ payload.question = asked.question
            /\ payload.repos = asked.repos
            /\ payload.mode = asked.mode
            /\ payload.queries = Get(asked.result, "queries", << >>)

\* A payload with a diagram, and the payloads of the same result in another
\* mode and without the flag are reachable too.
C25_Witness ==
    /\ Formatted
    /\ call.arg.mode = "codemap"
    /\ call.arg.include_mermaid
    /\ "mermaid_diagram" \in DOMAIN call.result[1]
    /\ call.result[1].codemap = Codemap(CodemapObject)

(* ---------------------------------------------------------------------- *)
(* The polling loop and the permits                                        *)
(* ---------------------------------------------------------------------- *)

\* get_query_status returns resp to poll_until_done in this step: the GET is
\* answered and the retry policy passes the answer on.
StatusReturns(resp) ==
    /\ call.fn = "poll_until_done"
    /\ ClientResponse(resp)
    /\ retry(resp, call.attempts).act = "return"

\* C26: poll_until_done makes at most poll_max_attempts status calls, and a
\* status call is made only by the step that ends a sleep.  The timeout
\* error is raised by the answer to status call number poll_max_attempts
\* when its state is neither done nor failed (an empty queries list
\* included), and by no other step; a done answer to that call is returned.
C26_CeilingOfStatusCalls ==
    [][call.fn = "poll_until_done" =>
          /\ call.polls <= poll_max_attempts
          /\ call'.polls # call.polls =>
                 /\ call.pc = "sleep"
                 /\ call'.pc = "request"
                 /\ call'.polls = call.polls + 1
          /\ (call.pc = "sleep" /\ call'.pc = "request") => call'.polls = call.polls + 1
          /\ \A resp \in ClientStatusOk :
                 StatusReturns(resp) =>
                     /\ (call'.pc = "raised" /\ call'.error = Some(PollTimeout)) <=>
                            /\ call.polls = poll_max_attempts
                            /\ resp.state \notin {"done", "failed"}
                     /\ resp.state = "done" =>
                            call'.pc = "returned" /\ call'.result = Some(resp)
          /\ (call.pc # "raised" /\ call'.pc = "raised" /\ call'.error = Some(PollTimeout)) =>
                 \E resp \in ClientStatusOk : StatusReturns(resp)]_vars

\* The answer to status call number poll_max_attempts reported done, after
\* answers that were not terminal, and poll_until_done returned it.
C26_Witness ==
    /\ call.fn = "poll_until_done"
    /\ call.polls = poll_max_attempts
    /\ Len(call.seen) = poll_max_attempts
    /\ call.seen[1] = "empty"
    /\ call.seen[poll_max_attempts] = "done"
    /\ call.pc = "returned"

\* The answer resp to a status call surfaces an error to poll_until_done: the
\* request fails and the retry policy does not send it again.
SurfacesError(un, resp) == retry(resp, un.attempts).act = "raise"

\* C28: the step in which a unit's status call surfaces an error is the
\* unit's last (it makes no further status call), and after it the task's
\* record is failed with the message of that error.
C28_StatusErrorFailsTheTask ==
    [][units' # units =>
          \A un \in BagToSet(units) :
              (un.pc = "status" /\ UnitStep(un)) =>
                  \A resp \in StatusResponses :
                      (SurfacesError(un, resp) /\ StatusResponse(un, resp)) =>
                          /\ UnitEnds(un)
                          /\ un.tid \in DOMAIN tasks'
                          /\ tasks'[un.tid].status = "failed"
                          /\ tasks'[un.tid].error = Some(retry(resp, un.attempts).msg)]_vars

\* A unit of the task has its POST in flight.
Submitting(tid) == \E un \in BagToSet(units) : un.tid = tid /\ un.pc = "submit"

\* C29: with no submission in flight every permit is free, however the
\* submissions before ended; and, every POST in flight being answered, the
\* units that wait for a permit obtain one: the queue of acquire(), which a
\* unit leaves only by taking a permit, is empty again and again.
C29_PermitsNotLeaked ==
    /\ [](BagCardinality(SubmitsInFlight) = 0 => permits = max_concurrent_queries)
    /\ []<>(waiters = << >>)

\* A submission has ended in an error, its permit is free again, and the
\* unit that waited for it has its POST in flight.
C29_Witness ==
    /\ \E tid \in DOMAIN tasks : tasks[tid].status = "failed"
    /\ waiters = << >>
    /\ permits = 0
    /\ \E tid \in TaskIds : Submitting(tid)
    /\ created = 2

\* The units that have called get_client: those past their first step.
HoldClient(un) == un.pc # "created"

\* C30: at most one DeepWikiClient is ever constructed, and a step
\* constructs one only when there is none; every unit that has called
\* get_client, running or waiting for a permit, holds that one instance and
\* its one permit pool.
C30_OneClientInstance ==
    [][/\ clients <= 1
       /\ clients' # clients => clients = 0 /\ clients' = 1
       /\ ((\E un \in BagToSet(units) : HoldClient(un)) \/ waiters # << >>) => clients = 1]_vars

\* Two units have called get_client, one sends its POST and the other waits
\* for the permit of the same client.
C30_Witness ==
    /\ clients = 1
    /\ \E un \in BagToSet(units) : un.pc = "submit"
    /\ waiters # << >>

====
